---- MODULE Spec2Model ----
(***************************************************************************)
(* Model of dns_update.py: a scheduler that runs check_and_update_dns     *)
(* once at startup and then on every tick of a one-minute job.  A cycle    *)
(* reloads the configuration, fetches the external IP, asks a DNS-over-    *)
(* HTTPS resolver for the published IP and, when they differ, performs     *)
(* the provider sequence zone lookup -> record lookup -> record update.    *)
(***************************************************************************)
EXTENDS Integers, Sequences, FiniteSets, TLC

\* ------------------------------------------------------------------ bounds
\* Record identifiers the provider can assign: 1..NumIds.
NumIds == 2

\* ------------------------------------------------------------ plain values
\* Python's None, printed by the f-strings of the log lines as "None".
None == "None"

\* Dotted-decimal addresses of the scenarios.
Addrs == {"1.2.3.4", "5.6.7.8"}

\* Every text a response can carry where an address is expected: the code
\* validates none of them, so the empty text is one of them.
Texts == Addrs \cup {""}

Whitespace == {" ", "\n"}

\* A python value's truth as `if v` / `v and ...` tests it, for the texts and
\* None that the model holds.
Truthy(v) == v # None /\ v # ""

\* A raised exception and a returned value, as the result of a call.
Raise(e) == [ok |-> FALSE, exc |-> e]
Return(v) == [ok |-> TRUE, val |-> v]
SysExit(code) == [ok |-> FALSE, exc |-> "SystemExit", code |-> code]

\* The classes `except Exception` catches: SystemExit is a BaseException and
\* is not one of them.
ExceptionClasses == {"RequestException", "Exception", "KeyError"}

\* ------------------------------------------------------------ str.strip()
RECURSIVE lstrip(_)
lstrip(s) == IF s # <<>> /\ Head(s) \in Whitespace THEN lstrip(Tail(s)) ELSE s

RECURSIVE rstrip(_)
rstrip(s) ==
  IF s # <<>> /\ s[Len(s)] \in Whitespace
  THEN rstrip(SubSeq(s, 1, Len(s) - 1))
  ELSE s

RECURSIVE Join(_)
Join(s) == IF s = <<>> THEN "" ELSE Head(s) \o Join(Tail(s))

\* response.text.strip(): a body is a sequence of pieces, each a run of
\* non-blank characters or one blank character.
strip(s) == Join(rstrip(lstrip(s)))

\* ------------------------------------------------------------ HTTP replies
\* requests.get / requests.put either raises a RequestException (connection
\* error, timeout) or returns a response with a status and a body.
NetFail == [kind |-> "exc"]
Reply(status, body) == [kind |-> "resp", status |-> status, body |-> body]

\* response.raise_for_status() raises HTTPError, a RequestException, for a
\* 4xx or 5xx status.
RaisesForStatus(http) == http.status >= 400

\* ------------------------------------------------------- configuration file
RequiredFields == {"zone", "dnsrecord", "cloudflare_auth_email", "cloudflare_auth_key"}

CfgA ==
  [zone |-> "example.com", dnsrecord |-> "home.example.com",
   cloudflare_auth_email |-> "a@example.com", cloudflare_auth_key |-> "key-a"]

CfgB ==
  [zone |-> "example.org", dnsrecord |-> "vpn.example.org",
   cloudflare_auth_email |-> "b@example.org", cloudflare_auth_key |-> "key-b"]

\* A JSON object in which a required field is present and empty.
CfgEmptyZone ==
  [zone |-> "", dnsrecord |-> "home.example.com",
   cloudflare_auth_email |-> "a@example.com", cloudflare_auth_key |-> "key-a"]

\* A JSON object without one of the required fields.
CfgNoKey ==
  [zone |-> "example.com", dnsrecord |-> "home.example.com",
   cloudflare_auth_email |-> "a@example.com"]

FileMissing == [kind |-> "missing"]
FileInvalid == [kind |-> "invalid"]
FileObject(obj) == [kind |-> "object", obj |-> obj]

\* What config/config.json can hold.
FileContents ==
  {FileMissing, FileInvalid} \cup
  {FileObject(o) : o \in {CfgA, CfgB, CfgEmptyZone, CfgNoKey}}

\* The fields of required_fields that are not keys of the object.
missing_fields(config) == {f \in RequiredFields : f \notin DOMAIN config}

\* Mutant of load_config: the required fields are not validated.
load_config_NoFieldCheck(f) ==
  IF f.kind = "missing" THEN SysExit("1")
  ELSE IF f.kind = "invalid" THEN SysExit("1")
  ELSE Return(f.obj)

\* load_config: sys.exit(1) when the file does not exist, is not JSON or lacks
\* a required key; otherwise the parsed object.  Only the presence of the keys
\* is tested, not their values.
load_config(f) ==
  IF f.kind = "missing" THEN SysExit("1")
  ELSE IF f.kind = "invalid" THEN SysExit("1")
  ELSE IF missing_fields(f.obj) # {} THEN SysExit("1")
  ELSE Return(f.obj)

\* ------------------------------------------------------------- IP resolver
\* Bodies the IP discovery endpoint sends when the machine's address is a:
\* the address and a newline, or a body of blanks.
IpBodies(a) == {<<a, "\n">>, <<" ", "\n">>}

IpReplies(a) ==
  {NetFail} \cup {Reply(500, <<>>)} \cup {Reply(200, b) : b \in IpBodies(a)}

\* Mutant of get_external_ip: the failure is logged and None returned, as
\* get_cloudflare_dns_ip does, instead of being raised again.
get_external_ip_Swallows(http) ==
  IF http.kind = "exc" THEN Return(None)
  ELSE IF RaisesForStatus(http) THEN Return(None)
  ELSE Return(strip(http.body))

\* get_external_ip: the stripped body; a RequestException is logged and
\* raised again.
get_external_ip(http) ==
  IF http.kind = "exc" THEN Raise("RequestException")
  ELSE IF RaisesForStatus(http) THEN Raise("RequestException")
  ELSE Return(strip(http.body))

\* --------------------------------------------------------- DNS over HTTPS
\* JSON bodies of the resolver: no Answer key, an empty Answer, an Answer whose
\* first entry carries data, an Answer whose first entry has no data key.
DohBodies ==
  {[Status |-> 3], [Status |-> 0, Answer |-> <<>>],
   [Status |-> 0, Answer |-> <<[name |-> "n", type |-> 1]>>]} \cup
  {[Status |-> 0, Answer |-> <<[name |-> "n", type |-> 1, data |-> t]>>] : t \in Texts}

DohReplies ==
  {NetFail} \cup {Reply(500, [Status |-> 2])} \cup {Reply(200, b) : b \in DohBodies}

\* get_cloudflare_dns_ip: the first answer's data, None when there is no
\* answer or when requests raised; data['Answer'][0]['data'] raises KeyError
\* when the entry has no data, and only RequestException is caught.
get_cloudflare_dns_ip(http) ==
  IF http.kind = "exc" THEN Return(None)
  ELSE IF RaisesForStatus(http) THEN Return(None)
  ELSE IF "Answer" \in DOMAIN http.body /\ http.body.Answer # <<>>
       THEN IF "data" \in DOMAIN http.body.Answer[1]
            THEN Return(http.body.Answer[1].data)
            ELSE Raise("KeyError")
       ELSE Return(None)

\* ---------------------------------------------------------- provider API
\* The two static header values attached to every provider request.
AuthHeaders(auth_email, auth_key) ==
  [XAuthEmail |-> auth_email, XAuthKey |-> auth_key, ContentType |-> "application/json"]

\* Envelopes {success, result, errors} of a list call (zones, dns_records) when
\* the name resolves to id: failure flag, zero matches, a match.
ListBodies(id) ==
  {[success |-> FALSE, errors |-> "e"],
   [success |-> TRUE, result |-> <<>>],
   [success |-> TRUE, result |-> <<[id |-> id]>>]}

ListReplies(id) ==
  {NetFail} \cup {Reply(500, [success |-> FALSE])} \cup
  {Reply(200, b) : b \in ListBodies(id)}

\* data.get(key) is truthy, for the success flag and the result list.
GetSuccess(data) == "success" \in DOMAIN data /\ data.success = TRUE
GetResult(data) == "result" \in DOMAIN data /\ data.result # <<>>

\* Mutant of get_zone_id: an empty result is logged and no id returned
\* instead of an exception being raised.
get_zone_id_NoneOnMiss(http) ==
  IF http.kind = "exc" THEN Raise("RequestException")
  ELSE IF RaisesForStatus(http) THEN Raise("RequestException")
  ELSE IF ~GetSuccess(http.body) THEN Raise("Exception")
  ELSE IF ~GetResult(http.body) THEN Return(0)
  ELSE Return(http.body.result[1].id)

\* get_zone_id: the id of the first zone of the result; raises on a transport
\* failure, a failure status, a success=false envelope and an empty result.
get_zone_id(http) ==
  IF http.kind = "exc" THEN Raise("RequestException")
  ELSE IF RaisesForStatus(http) THEN Raise("RequestException")
  ELSE IF ~GetSuccess(http.body) THEN Raise("Exception")
  ELSE IF ~GetResult(http.body) THEN Raise("Exception")
  ELSE Return(http.body.result[1].id)

\* Mutant of get_dns_record_id: an empty result is logged and no id returned
\* instead of an exception being raised.
get_dns_record_id_NoneOnMiss(http) ==
  IF http.kind = "exc" THEN Raise("RequestException")
  ELSE IF RaisesForStatus(http) THEN Raise("RequestException")
  ELSE IF ~GetSuccess(http.body) THEN Raise("Exception")
  ELSE IF ~GetResult(http.body) THEN Return(0)
  ELSE Return(http.body.result[1].id)

\* get_dns_record_id: the same, for the A record of the zone.
get_dns_record_id(http) ==
  IF http.kind = "exc" THEN Raise("RequestException")
  ELSE IF RaisesForStatus(http) THEN Raise("RequestException")
  ELSE IF ~GetSuccess(http.body) THEN Raise("Exception")
  ELSE IF ~GetResult(http.body) THEN Raise("Exception")
  ELSE Return(http.body.result[1].id)

\* Mutant of UpdatePayload: the record name and the IP change places.
UpdatePayload_Swapped(dnsrecord, ip) ==
  [type |-> "A", name |-> ip, content |-> dnsrecord, ttl |-> 1, proxied |-> FALSE]

\* The body of the PUT: a full replace of the record.
UpdatePayload(dnsrecord, ip) ==
  [type |-> "A", name |-> dnsrecord, content |-> ip, ttl |-> 1, proxied |-> FALSE]

\* Mutant of UpdateUrl: the two ids change places in the path.
UpdateUrl_Swapped(zid, rid) == [zone |-> rid, record |-> zid]

\* The path of the PUT: zones/{zone_id}/dns_records/{record_id}.
UpdateUrl(zid, rid) == [zone |-> zid, record |-> rid]

\* What the provider answers to PUT zones/{zone_id}/dns_records/{record_id}:
\* it accepts the write only for the ids of the record it holds now.
UpdateReplies(p, zid, rid, payload) ==
  {NetFail} \cup {Reply(500, [success |-> FALSE])} \cup
  {Reply(200, [success |-> FALSE, errors |-> "e"])} \cup
  (IF zid = p.zone_id /\ rid = p.record_id
   THEN {Reply(200, [success |-> TRUE, result |-> [id |-> rid, content |-> payload.content]])}
   ELSE {})

\* Mutant of update_dns_record: the success flag of the envelope is not read.
update_dns_record_IgnoresEnvelope(http) ==
  IF http.kind = "exc" THEN Raise("RequestException")
  ELSE IF RaisesForStatus(http) THEN Raise("RequestException")
  ELSE Return(http.body)

\* update_dns_record: the envelope; raises on a transport failure, a failure
\* status and a success=false envelope.
update_dns_record(http) ==
  IF http.kind = "exc" THEN Raise("RequestException")
  ELSE IF RaisesForStatus(http) THEN Raise("RequestException")
  ELSE IF ~GetSuccess(http.body) THEN Raise("Exception")
  ELSE Return(http.body)

\* The provider's record after the reply http to a PUT of payload.
Written(p, http, payload) ==
  IF http.kind = "resp" /\ ~RaisesForStatus(http) /\ GetSuccess(http.body)
  THEN [p EXCEPT !.content = payload.content]
  ELSE p

\* ------------------------------------------------------------- reconciler
\* Mutant of NoUpdateNeeded: the comparison is inverted.
NoUpdateNeeded_Inverted(cf, cur) == Truthy(cf) /\ cf # cur

\* Mutant of NoUpdateNeeded: the presence test is negated (`if not cf_ip and`).
NoUpdateNeeded_Negated(cf, cur) == ~Truthy(cf) /\ cf = cur

\* `if cf_ip and cf_ip == current_ip`: the published IP is there and is the
\* external IP, so nothing is to be done.
NoUpdateNeeded(cf, cur) == Truthy(cf) /\ cf = cur

\* Mutant of Absorbs: a bare `except:`, which catches SystemExit too.
Absorbs_Everything(exc) == TRUE

\* `except Exception` at the cycle boundary.
Absorbs(exc) == exc \in ExceptionClasses

\* Mutant of signal_handler: the exit status of an error.
signal_handler_ExitsOne == SysExit("1")

\* signal_handler: sys.exit(0), a SystemExit raised where the signal arrives.
signal_handler == SysExit("0")

\* ------------------------------------------------------------------ state
VARIABLES
  pc,           \* where the single thread of control stands
  exit_status,  \* "running", or how the process ended: "0", "1", "killed"
  handlers,     \* signal_handler is registered for SIGINT and SIGTERM
  job,          \* the one-minute job: "none", "waiting", "due"
  caller,       \* who invoked the cycle in flight: "main" or "tick"
  inflight,     \* activations of check_and_update_dns that have not returned
  _config,      \* the global _config
  zone, dnsrecord, auth_email, auth_key,      \* locals of the cycle
  current_ip, cf_ip, zone_id, record_id,      \* locals of the cycle
  outcome,      \* how the cycle ended: "noop", "updated", "error"
  calls,        \* the network calls of the cycle in flight, in order
  prev,         \* the preceding cycle: its outcome and the IP it wrote, if any
  file,         \* content of config/config.json
  ext_ip,       \* the machine's external address
  cf            \* the provider's A record: zone_id, record_id, content

prog == <<pc, exit_status, handlers, job, caller, inflight, _config>>
locals == <<zone, dnsrecord, auth_email, auth_key, current_ip, cf_ip, zone_id, record_id,
            outcome, calls>>
env == <<file, ext_ip, cf>>
vars == <<prog, locals, prev, env>>

\* _config = None, before main assigns it.
NoConfig == [none |-> TRUE]

Ids == 1 .. NumIds

CyclePcs == {"c_load", "c_extip", "c_dnsip", "c_zone", "c_record", "c_update", "c_return"}

Running == exit_status = "running"

Init ==
  /\ pc = "main_load"
  /\ exit_status = "running"
  /\ handlers = FALSE
  /\ job = "none"
  /\ caller = "none"
  /\ inflight = 0
  /\ _config = NoConfig
  /\ zone = None /\ dnsrecord = None /\ auth_email = None /\ auth_key = None
  /\ current_ip = None /\ cf_ip = None /\ zone_id = 0 /\ record_id = 0
  /\ outcome = "none"
  /\ calls = <<>>
  /\ prev = [outcome |-> "none", written |-> None]
  /\ file \in FileContents
  /\ ext_ip \in Addrs
  /\ cf \in [zone_id : {1}, record_id : Ids, content : Addrs]

ClearLocals ==
  /\ zone' = None /\ dnsrecord' = None /\ auth_email' = None /\ auth_key' = None
  /\ current_ip' = None /\ cf_ip' = None /\ zone_id' = 0 /\ record_id' = 0
  /\ outcome' = "none"
  /\ calls' = <<>>

\* An exception leaves the process: SystemExit ends it with its code, any
\* other one with a traceback and status 1.
ExitWith(r) ==
  exit_status' = IF r.exc = "SystemExit" THEN r.code ELSE "1"

\* ------------------------------------------------------------------- main
\* main: setup_logging() and _config = load_config().
Main_load_config ==
  /\ Running /\ pc = "main_load"
  /\ LET r == load_config(file) IN
       IF r.ok
       THEN /\ _config' = r.val
            /\ pc' = "main_signal"
            /\ UNCHANGED exit_status
       ELSE /\ ExitWith(r)
            /\ UNCHANGED <<_config, pc>>
  /\ UNCHANGED <<handlers, job, caller, inflight, locals, prev, env>>

\* main: signal.signal(SIGINT, ...) and signal.signal(SIGTERM, ...).
Main_signal ==
  /\ Running /\ pc = "main_signal"
  /\ handlers' = TRUE
  /\ pc' = "main_schedule"
  /\ UNCHANGED <<exit_status, job, caller, inflight, _config, locals, prev, env>>

\* main: schedule.every(1).minutes.do(check_and_update_dns).
Main_schedule ==
  /\ Running /\ pc = "main_schedule"
  /\ job' = "waiting"
  /\ pc' = "main_first"
  /\ UNCHANGED <<exit_status, handlers, caller, inflight, _config, locals, prev, env>>

\* The call of check_and_update_dns by `by`.
Invoke(by) ==
  /\ pc' = "c_load"
  /\ caller' = by
  /\ inflight' = inflight + 1
  /\ UNCHANGED <<exit_status, handlers, job, _config, locals, prev, env>>

\* main: the cycle run immediately on startup.
Main_first ==
  /\ Running /\ pc = "main_first"
  /\ Invoke("main")

\* Mutant of RunPending: the job is run when it is due wherever the main
\* thread stands, as a timer thread would.
RunPending_Preemptive ==
  /\ Running
  /\ job = "due"
  /\ Invoke("tick")

\* main: schedule.run_pending() in the loop runs the job when it is due;
\* otherwise the loop sleeps a second and looks again.
RunPending ==
  /\ Running /\ pc = "loop"
  /\ job = "due"
  /\ Invoke("tick")

\* A minute has passed since the job was scheduled or last run.
Tick ==
  /\ Running
  /\ job = "waiting"
  /\ job' = "due"
  /\ UNCHANGED <<pc, exit_status, handlers, caller, inflight, _config, locals, prev, env>>

\* ------------------------------------------------- check_and_update_dns
\* One network call of the cycle: the function, what it was given, the reply of
\* the transport and what the function returned or raised.
Call(op, req, http, r) == [op |-> op, req |-> req, http |-> http, res |-> r]

\* Mutant of Abort: the failed step is tried again.
Abort_Retries(r) ==
  /\ pc' = pc
  /\ UNCHANGED <<outcome, exit_status>>

\* An exception raised inside the try block: `except Exception` logs it and the
\* function returns; anything else leaves the process.
Abort(r) ==
  IF Absorbs(r.exc)
  THEN /\ pc' = "c_return"
       /\ outcome' = "error"
       /\ UNCHANGED exit_status
  ELSE /\ ExitWith(r)
       /\ UNCHANGED <<pc, outcome>>

\* Mutant of CLoad: the locals are read from _config before it is assigned.
CLoad_StaleLocals ==
  /\ Running /\ pc = "c_load"
  /\ LET r == load_config(file) IN
       IF r.ok
       THEN /\ _config' = r.val
            /\ zone' = _config["zone"]
            /\ dnsrecord' = _config["dnsrecord"]
            /\ auth_email' = _config["cloudflare_auth_email"]
            /\ auth_key' = _config["cloudflare_auth_key"]
            /\ pc' = "c_extip"
            /\ UNCHANGED exit_status
       ELSE /\ ExitWith(r)
            /\ UNCHANGED <<_config, zone, dnsrecord, auth_email, auth_key, pc>>
  /\ UNCHANGED <<handlers, job, caller, inflight, current_ip, cf_ip, zone_id, record_id,
                 outcome, calls, prev, env>>

\* _config = load_config() and the four locals read from it, before the try
\* block: the SystemExit of load_config leaves the process.
CLoad ==
  /\ Running /\ pc = "c_load"
  /\ LET r == load_config(file) IN
       IF r.ok
       THEN /\ _config' = r.val
            /\ zone' = _config'["zone"]
            /\ dnsrecord' = _config'["dnsrecord"]
            /\ auth_email' = _config'["cloudflare_auth_email"]
            /\ auth_key' = _config'["cloudflare_auth_key"]
            /\ pc' = "c_extip"
            /\ UNCHANGED exit_status
       ELSE /\ ExitWith(r)
            /\ UNCHANGED <<_config, zone, dnsrecord, auth_email, auth_key, pc>>
  /\ UNCHANGED <<handlers, job, caller, inflight, current_ip, cf_ip, zone_id, record_id,
                 outcome, calls, prev, env>>

\* current_ip = get_external_ip()
CExtIp ==
  /\ Running /\ pc = "c_extip"
  /\ \E http \in IpReplies(ext_ip) :
       LET r == get_external_ip(http) IN
         /\ calls' = Append(calls, Call("get_external_ip", <<>>, http, r))
         /\ IF r.ok
            THEN /\ current_ip' = r.val
                 /\ pc' = "c_dnsip"
                 /\ UNCHANGED <<exit_status, outcome>>
            ELSE /\ Abort(r)
                 /\ UNCHANGED current_ip
  /\ UNCHANGED <<handlers, job, caller, inflight, _config, zone, dnsrecord, auth_email,
                 auth_key, cf_ip, zone_id, record_id, prev, env>>

\* cf_ip = get_cloudflare_dns_ip(dnsrecord) and the test whether an update is
\* needed: if not, the function returns.
CDnsIp ==
  /\ Running /\ pc = "c_dnsip"
  /\ \E http \in DohReplies :
       LET r == get_cloudflare_dns_ip(http) IN
         /\ calls' = Append(calls, Call("get_cloudflare_dns_ip", <<dnsrecord>>, http, r))
         /\ IF r.ok
            THEN /\ cf_ip' = r.val
                 /\ IF NoUpdateNeeded(cf_ip', current_ip)
                    THEN pc' = "c_return" /\ outcome' = "noop"
                    ELSE pc' = "c_zone" /\ UNCHANGED outcome
                 /\ UNCHANGED exit_status
            ELSE /\ Abort(r)
                 /\ UNCHANGED cf_ip
  /\ UNCHANGED <<handlers, job, caller, inflight, _config, zone, dnsrecord, auth_email,
                 auth_key, current_ip, zone_id, record_id, prev, env>>

\* zone_id = get_zone_id(zone, auth_email, auth_key)
CZone ==
  /\ Running /\ pc = "c_zone"
  /\ \E http \in ListReplies(cf.zone_id) :
       LET r == get_zone_id(http) IN
         /\ calls' = Append(calls,
              Call("get_zone_id", <<zone, AuthHeaders(auth_email, auth_key)>>, http, r))
         /\ IF r.ok
            THEN /\ zone_id' = r.val
                 /\ pc' = "c_record"
                 /\ UNCHANGED <<exit_status, outcome>>
            ELSE /\ Abort(r)
                 /\ UNCHANGED zone_id
  /\ UNCHANGED <<handlers, job, caller, inflight, _config, zone, dnsrecord, auth_email,
                 auth_key, current_ip, cf_ip, record_id, prev, env>>

\* record_id = get_dns_record_id(zone_id, dnsrecord, auth_email, auth_key)
CRecord ==
  /\ Running /\ pc = "c_record"
  /\ \E http \in ListReplies(cf.record_id) :
       LET r == get_dns_record_id(http) IN
         /\ calls' = Append(calls,
              Call("get_dns_record_id",
                   <<zone_id, dnsrecord, AuthHeaders(auth_email, auth_key)>>, http, r))
         /\ IF r.ok
            THEN /\ record_id' = r.val
                 /\ pc' = "c_update"
                 /\ UNCHANGED <<exit_status, outcome>>
            ELSE /\ Abort(r)
                 /\ UNCHANGED record_id
  /\ UNCHANGED <<handlers, job, caller, inflight, _config, zone, dnsrecord, auth_email,
                 auth_key, current_ip, cf_ip, zone_id, prev, env>>

\* result = update_dns_record(zone_id, record_id, dnsrecord, current_ip, ...)
CUpdate ==
  /\ Running /\ pc = "c_update"
  /\ LET payload == UpdatePayload(dnsrecord, current_ip)
         url == UpdateUrl(zone_id, record_id) IN
       \E http \in UpdateReplies(cf, url.zone, url.record, payload) :
         LET r == update_dns_record(http) IN
           /\ calls' = Append(calls,
                Call("update_dns_record",
                     <<url.zone, url.record, payload, AuthHeaders(auth_email, auth_key)>>,
                     http, r))
           /\ cf' = Written(cf, http, payload)
           /\ IF r.ok
              THEN /\ pc' = "c_return"
                   /\ outcome' = "updated"
                   /\ UNCHANGED exit_status
              ELSE Abort(r)
  /\ UNCHANGED <<handlers, job, caller, inflight, _config, zone, dnsrecord, auth_email,
                 auth_key, current_ip, cf_ip, zone_id, record_id, prev, file, ext_ip>>

\* Mutant of CReturn: a job that was run is not scheduled again.
CReturn_CancelsJob ==
  /\ Running /\ pc = "c_return"
  /\ pc' = "loop"
  /\ inflight' = inflight - 1
  /\ job' = IF caller = "tick" THEN "none" ELSE job
  /\ caller' = "none"
  /\ prev' = [outcome |-> outcome,
              written |-> IF outcome = "updated" THEN current_ip ELSE None]
  /\ ClearLocals
  /\ UNCHANGED <<exit_status, handlers, _config, env>>

\* The function returns to the scheduler loop; a job that schedule ran is
\* scheduled again a minute after it finished.
CReturn ==
  /\ Running /\ pc = "c_return"
  /\ pc' = "loop"
  /\ inflight' = inflight - 1
  /\ job' = IF caller = "tick" THEN "waiting" ELSE job
  /\ caller' = "none"
  /\ prev' = [outcome |-> outcome,
              written |-> IF outcome = "updated" THEN current_ip ELSE None]
  /\ ClearLocals
  /\ UNCHANGED <<exit_status, handlers, _config, env>>

\* ---------------------------------------------------------------- signals
TryPcs == {"c_extip", "c_dnsip", "c_zone", "c_record", "c_update"}

\* SIGINT or SIGTERM arrives.  With the handlers registered signal_handler runs
\* where the main thread stands, and its SystemExit passes `except Exception`;
\* before that the default disposition ends the process.
Signal ==
  /\ Running
  /\ IF ~handlers
     THEN /\ exit_status' = "killed"
          /\ UNCHANGED <<pc, outcome>>
     ELSE IF pc \in TryPcs
          THEN Abort(signal_handler)
          ELSE /\ ExitWith(signal_handler)
               /\ UNCHANGED <<pc, outcome>>
  /\ UNCHANGED <<handlers, job, caller, inflight, _config, zone, dnsrecord, auth_email,
                 auth_key, current_ip, cf_ip, zone_id, record_id, calls, prev, env>>

\* ------------------------------------------------------------ environment
\* config/config.json is replaced or removed while the process runs.
ChangeFile ==
  /\ Running
  /\ file' \in {FileMissing, FileObject(CfgA), FileObject(CfgB)} \ {file}
  /\ UNCHANGED <<prog, locals, prev, ext_ip, cf>>

\* The machine is given another address.
ChangeExternalIp ==
  /\ Running
  /\ ext_ip' \in Addrs \ {ext_ip}
  /\ UNCHANGED <<prog, locals, prev, file, cf>>

\* The provider's record is deleted and created again: it gets another id.
RecreateRecord ==
  /\ Running
  /\ \E i \in Ids \ {cf.record_id} : cf' = [cf EXCEPT !.record_id = i]
  /\ UNCHANGED <<prog, locals, prev, file, ext_ip>>

\* ----------------------------------------------------------- specification
Step ==
  \/ Main_load_config \/ Main_signal \/ Main_schedule \/ Main_first \/ RunPending
  \/ CLoad \/ CExtIp \/ CDnsIp \/ CZone \/ CRecord \/ CUpdate \/ CReturn

Next ==
  \/ Step
  \/ Tick
  \/ Signal
  \/ ChangeFile \/ ChangeExternalIp \/ RecreateRecord

Spec == Init /\ [][Next]_vars

\* Every step of the program ends (each network call is bounded by its
\* timeout) and time passes; nothing is assumed of signals and of the
\* environment.
FairSpec == Spec /\ WF_vars(Step) /\ WF_vars(Tick)

\* ------------------------------------------------------- reading the log
ProviderOps == {"get_zone_id", "get_dns_record_id", "update_dns_record"}

\* The positions of the cycle's calls of op.
CallsOf(op) == {i \in DOMAIN calls : calls[i].op = op}

\* The transport failed or answered with a failure status.
TransportFailed(http) == http.kind = "exc" \/ http.status >= 400

\* A list call failed: transport, status, success=false envelope or no match.
ListFailed(http) ==
  \/ TransportFailed(http)
  \/ http.body.success = FALSE
  \/ http.body.result = <<>>

\* The published-IP lookup of this cycle has returned v.
DnsReturned(v) ==
  \E i \in CallsOf("get_cloudflare_dns_ip") : calls[i].res.ok /\ calls[i].res.val = v

\* The external-IP fetch of this cycle has returned v.
ExtReturned(v) ==
  \E i \in CallsOf("get_external_ip") : calls[i].res.ok /\ calls[i].res.val = v

\* A cycle is in flight and the process has not been ended by a failure: it
\* runs, or a shutdown signal ended it with status 0.
NotCrashed == exit_status \in {"running", "0"}

\* -------------------------------------------------------------------- C1
\* C1: in a cycle whose published-IP lookup returned an address (a present
\* value: not None, and not the empty text that `if cf_ip` takes for absent)
\* equal to the external IP fetched in that cycle, no zone lookup, no record
\* lookup and no update is issued, and the cycle ends as a no-op.
C1_InSyncIsNoOp ==
  \A a \in Addrs :
    (pc \in CyclePcs /\ ExtReturned(a) /\ DnsReturned(a)) =>
      /\ \A op \in ProviderOps : CallsOf(op) = {}
      /\ pc = "c_return"
      /\ outcome = "noop"

C1_Witness ==
  /\ pc = "c_return" /\ outcome = "noop"
  /\ ExtReturned("1.2.3.4") /\ DnsReturned("1.2.3.4")
  /\ Len(calls) = 2

\* -------------------------------------------------------------------- C2
\* The published IP is absent (None, also for an unknown one) or differs from
\* the external IP, both as returned in this cycle.
Divergent ==
  \E e \in Texts : ExtReturned(e) /\ (DnsReturned(None) \/ \E d \in Texts \ {e} : DnsReturned(d))

UpdateIps == {calls[i].req[3].content : i \in CallsOf("update_dns_record")}

\* C2 as stated: every completed cycle with an absent or different published IP
\* has issued exactly one update, carrying the external IP of the cycle.
C2_ExactlyOneUpdate ==
  (pc = "c_return" /\ Divergent) =>
    /\ Cardinality(CallsOf("update_dns_record")) = 1
    /\ \A e \in Texts : ExtReturned(e) => UpdateIps = {e}

\* C2 as amended: with an absent or different published IP a cycle issues at
\* most one update, every update carries the external IP fetched in the cycle,
\* and a cycle that ran to its end has looked the zone up and has issued the
\* update exactly when the zone lookup and the record lookup both returned.
C2_OneUpdateWhenResolved ==
  (pc \in CyclePcs /\ Divergent) =>
    /\ Cardinality(CallsOf("update_dns_record")) <= 1
    /\ \A e \in Texts : ExtReturned(e) => UpdateIps \subseteq {e}
    /\ pc = "c_return" =>
         /\ CallsOf("get_zone_id") # {}
         /\ (CallsOf("update_dns_record") # {}) <=>
              /\ \E i \in CallsOf("get_zone_id") : calls[i].res.ok
              /\ \E i \in CallsOf("get_dns_record_id") : calls[i].res.ok

C2_Witness ==
  /\ pc = "c_return" /\ outcome = "updated"
  /\ ExtReturned("5.6.7.8") /\ DnsReturned("1.2.3.4")
  /\ UpdateIps = {"5.6.7.8"}
  /\ cf.content = "5.6.7.8"

\* -------------------------------------------------------------------- C3
\* C3 as stated: no failure of a step of a cycle, the configuration load at its
\* start included, ends the process: while a cycle is in flight the process
\* runs or was shut down by a signal.
C3_CycleNeverEndsProcess == pc \in CyclePcs => NotCrashed

\* -------------------------------------------------------------------- C4
\* C4: when the external-IP fetch of a cycle fails, the cycle makes no other
\* call (no published-IP lookup, no provider call), it ends as an absorbed
\* error and the failure does not end the process.
C4_ExtIpFailureIsolated ==
  (pc \in CyclePcs /\ \E i \in CallsOf("get_external_ip") : TransportFailed(calls[i].http)) =>
    /\ Len(calls) = 1
    /\ pc = "c_return" /\ outcome = "error"
    /\ NotCrashed

C4_Witness ==
  /\ pc = "c_return" /\ outcome = "error" /\ Running
  /\ Len(calls) = 1 /\ calls[1].op = "get_external_ip" /\ calls[1].http = NetFail

\* -------------------------------------------------------------------- C5
\* C5: when the zone lookup of a cycle fails (transport, status, success=false,
\* no zone) the cycle makes no record lookup and no update; when the record
\* lookup fails it makes no update; either way the cycle ends as an absorbed
\* error and the process is not ended.
C5_ProviderFailureIsolated ==
  /\ (pc \in CyclePcs /\ \E i \in CallsOf("get_zone_id") : ListFailed(calls[i].http)) =>
       /\ CallsOf("get_dns_record_id") = {} /\ CallsOf("update_dns_record") = {}
       /\ pc = "c_return" /\ outcome = "error" /\ NotCrashed
  /\ (pc \in CyclePcs /\ \E i \in CallsOf("get_dns_record_id") : ListFailed(calls[i].http)) =>
       /\ CallsOf("update_dns_record") = {}
       /\ pc = "c_return" /\ outcome = "error" /\ NotCrashed

C5_Witness ==
  /\ pc = "c_return" /\ outcome = "error" /\ Running
  /\ Len(calls) = 3 /\ calls[3].op = "get_zone_id"
  /\ calls[3].http = Reply(200, [success |-> TRUE, result |-> <<>>])

\* -------------------------------------------------------------------- C6
\* C6: for every address a, when the preceding cycle wrote a successfully, the
\* published-IP lookup of this cycle reflects that write and the external IP
\* is still a, this cycle makes no provider call and ends as a no-op.
C6_SecondCycleIsNoOp ==
  \A a \in Addrs :
    (pc \in CyclePcs /\ prev.outcome = "updated" /\ prev.written = a
       /\ ExtReturned(a) /\ DnsReturned(a)) =>
      /\ \A op \in ProviderOps : CallsOf(op) = {}
      /\ pc = "c_return" /\ outcome = "noop"

C6_Witness ==
  /\ prev.outcome = "updated" /\ prev.written = "5.6.7.8"
  /\ pc = "c_return" /\ outcome = "noop"
  /\ ExtReturned("5.6.7.8") /\ DnsReturned("5.6.7.8")
  /\ cf.content = "5.6.7.8"

\* -------------------------------------------------------------------- C7
\* C7: a network or provider error of a cycle never ends the process, and
\* after a cycle that was aborted by such an error the scheduler starts
\* another cycle, unless a shutdown signal ends the process first.
C7_RetriesAfterAbort ==
  /\ [](pc \in TryPcs \cup {"c_return"} => NotCrashed)
  /\ (pc = "c_return" /\ outcome = "error") ~> (pc = "c_load" \/ exit_status = "0")

C7_Witness ==
  /\ pc = "c_load" /\ caller = "tick" /\ Running
  /\ prev.outcome = "error"

\* -------------------------------------------------------------------- C8
\* C8: at most one activation of check_and_update_dns exists at any time, a
\* tick that falls into a running cycle included; the first cycle is the one
\* main calls itself, and the scheduler loop is entered only after it.
C8_OneCycleAtATime ==
  /\ inflight <= 1
  /\ (inflight = 1) <=> (pc \in CyclePcs)
  /\ (pc \in CyclePcs /\ prev.outcome = "none") => caller = "main"
  /\ pc = "loop" => prev.outcome # "none"
  /\ (caller = "tick" /\ pc \in CyclePcs) => prev.outcome # "none"

C8_Witness ==
  /\ pc = "c_zone" /\ caller = "main" /\ job = "due" /\ inflight = 1 /\ Running

\* -------------------------------------------------------------------- C9
\* C9 as stated: whatever the resolver answers, get_cloudflare_dns_ip returns
\* (None or the first answer's data) and the lookup does not abort the cycle.
C9_LookupNeverRaises ==
  \A i \in CallsOf("get_cloudflare_dns_ip") :
    /\ calls[i].res.ok
    /\ ~(pc = "c_return" /\ outcome = "error" /\ Len(calls) = i)

\* ------------------------------------------------------------------- C10
\* C10 as stated: after main has loaded the configuration nothing assigns
\* _config again.
C10_LoadedOnce == [][pc # "main_load" => _config' = _config]_vars

\* C10 as amended: _config is assigned by the load of main and by the load at
\* the start of each cycle and by nothing else, and the zone, record name and
\* credentials of every call of a cycle are those loaded at that cycle's start.
C10_LoadedPerCycle ==
  /\ [][_config' # _config => pc \in {"main_load", "c_load"}]_vars
  /\ [][(pc \in CyclePcs \ {"c_load"} /\ pc' \in CyclePcs) =>
          <<zone, dnsrecord, auth_email, auth_key>>' = <<zone, dnsrecord, auth_email, auth_key>>]_vars
  /\ [](pc \in TryPcs \cup {"c_return"} =>
          /\ zone = _config["zone"] /\ dnsrecord = _config["dnsrecord"]
          /\ auth_email = _config["cloudflare_auth_email"]
          /\ auth_key = _config["cloudflare_auth_key"]
          /\ \A i \in CallsOf("get_zone_id") :
               calls[i].req = <<_config["zone"],
                                AuthHeaders(_config["cloudflare_auth_email"],
                                            _config["cloudflare_auth_key"])>>
          /\ \A i \in CallsOf("update_dns_record") :
               calls[i].req[3].name = _config["dnsrecord"])

C10_Witness ==
  /\ pc = "c_update" /\ prev.outcome # "none"
  /\ _config = CfgB /\ zone = "example.org"
  /\ file = FileMissing

\* ------------------------------------------------------------------- C11
\* C11 as stated: a shutdown signal ends the process only between ticks, never
\* while a cycle is in flight.
C11_ExitOnlyBetweenTicks == exit_status = "0" => pc \notin CyclePcs

\* C11 as amended: a shutdown signal ends the process where the main thread
\* stands, a cycle in flight included; the interrupted cycle is abandoned at
\* that step, so a signal between the record lookup and the update leaves the
\* update unsent and the provider's record as it was.
C11_ExitAbandonsCycle ==
  /\ [][(Signal /\ handlers /\ pc \in CyclePcs) =>
          /\ exit_status' # "running"
          /\ pc' = pc /\ calls' = calls /\ cf' = cf]_vars
  /\ [][exit_status # "running" => (pc' = pc /\ calls' = calls /\ cf' = cf)]_vars
  /\ []((exit_status # "running" /\ pc = "c_update") => CallsOf("update_dns_record") = {})

C11_Witness ==
  /\ exit_status = "0" /\ pc = "c_update"
  /\ \E i \in CallsOf("get_dns_record_id") : calls[i].res.ok
  /\ CallsOf("update_dns_record") = {}
  /\ cf.content # current_ip

\* ------------------------------------------------------------------- C12
\* C12: once the handlers are registered, every signal ends the process with
\* status 0, in the scheduler loop as inside the try block of a cycle.
C12_SignalExitsZero == [][(Signal /\ handlers) => exit_status' = "0"]_vars

C12_Witness == exit_status = "0" /\ pc = "c_zone" /\ handlers

\* ------------------------------------------------------------------- C13
\* The file holds no configuration load_config accepts: it is missing, is not
\* JSON, or lacks a required field.
ConfigError(f) ==
  \/ f.kind \in {"missing", "invalid"}
  \/ f.kind = "object" /\ ~(RequiredFields \subseteq DOMAIN f.obj)

\* C13: the load of main ends the process with status 1 on a configuration
\* error, and until that load has succeeded no cycle has started, no job is
\* scheduled and no network call was made.
C13_ConfigErrorIsFatal ==
  /\ [][(Main_load_config /\ ConfigError(file)) =>
          (exit_status' = "1" /\ pc' = "main_load")]_vars
  /\ [](pc = "main_load" =>
          /\ inflight = 0 /\ calls = <<>> /\ job = "none"
          /\ prev.outcome = "none" /\ _config = NoConfig)

C13_Witness ==
  /\ exit_status = "1" /\ pc = "main_load"
  /\ file = FileObject(CfgNoKey)
  /\ calls = <<>> /\ inflight = 0

\* ------------------------------------------------------------------- C14
\* C14 as stated: a configuration that was accepted has the four required
\* fields, none of them empty.
C14_AcceptedFieldsNonEmpty ==
  _config # NoConfig =>
    \A f \in RequiredFields : f \in DOMAIN _config /\ _config[f] # ""

\* ------------------------------------------------------------------- C15
\* A list call returned an id: the reply is a success envelope with a match.
ListOk(i) == ~ListFailed(calls[i].http) /\ calls[i].res.ok

\* C15: a record lookup comes only after a zone lookup of the same cycle that
\* returned, and an update only after a zone lookup and then a record lookup of
\* the same cycle that both returned.
C15_ProviderOrder ==
  /\ \A j \in CallsOf("get_dns_record_id") :
       \E k \in CallsOf("get_zone_id") : k < j /\ ListOk(k)
  /\ \A i \in CallsOf("update_dns_record") :
       \E k \in CallsOf("get_zone_id") : \E j \in CallsOf("get_dns_record_id") :
         k < j /\ j < i /\ ListOk(k) /\ ListOk(j)

C15_Witness ==
  /\ Len(calls) = 5
  /\ calls[3].op = "get_zone_id" /\ calls[4].op = "get_dns_record_id"
  /\ calls[5].op = "update_dns_record" /\ calls[5].res.ok

\* ------------------------------------------------------------------- C16
\* C16: a cycle starts with none of the four values; the ids in the path of
\* every update are those the zone lookup and the record lookup of the same
\* cycle returned; the record lookup returns the id the provider's record has
\* then, so after the record was created again the write goes to the new id.
C16_NothingCarriedAcrossCycles ==
  /\ [](pc \in {"loop", "c_load", "c_extip"} =>
          current_ip = None /\ cf_ip = None /\ zone_id = 0 /\ record_id = 0)
  /\ [](\A i \in CallsOf("update_dns_record") :
          \E k \in CallsOf("get_zone_id") : \E j \in CallsOf("get_dns_record_id") :
            /\ ListOk(k) /\ ListOk(j)
            /\ calls[j].req[1] = calls[k].http.body.result[1].id
            /\ calls[i].req[1] = calls[k].http.body.result[1].id
            /\ calls[i].req[2] = calls[j].http.body.result[1].id)
  /\ [][(pc = "c_record" /\ pc' = "c_update") => record_id' = cf.record_id]_vars
  /\ [][cf'.content # cf.content =>
          /\ calls'[Len(calls')].op = "update_dns_record"
          /\ calls'[Len(calls')].req[2] = cf.record_id]_vars

C16_Witness ==
  /\ pc = "c_return" /\ outcome = "updated"
  /\ prev.outcome = "updated"
  /\ \E i \in CallsOf("update_dns_record") : calls[i].req[2] = 2
  /\ cf.record_id = 2

\* ------------------------------------------------------------------- C17
\* C17: a cycle calls each of the five network operations at most once,
\* whatever the call returns or raises.
C17_NoRetryInCycle ==
  /\ Len(calls) <= 5
  /\ \A i, j \in DOMAIN calls : calls[i].op = calls[j].op => i = j

C17_Witness ==
  /\ pc = "c_return" /\ outcome = "error"
  /\ Len(calls) = 4 /\ calls[4].op = "get_dns_record_id"
  /\ calls[4].http = NetFail

\* ------------------------------------------------------------------- C18
\* The provider answered 200 with an envelope whose success flag is false.
EnvelopeFailure(http) ==
  http.kind = "resp" /\ http.status = 200 /\ http.body.success = FALSE

\* C18: an envelope with success=false at any of the three provider calls ends
\* the cycle as an absorbed error with no later call, and a cycle reports an
\* update only when the update call got an envelope with success=true.
C18_EnvelopeFailureAborts ==
  /\ \A i \in DOMAIN calls :
       (calls[i].op \in ProviderOps /\ EnvelopeFailure(calls[i].http)) =>
         /\ i = Len(calls)
         /\ pc = "c_return" /\ outcome = "error"
  /\ outcome = "updated" =>
       \E i \in CallsOf("update_dns_record") :
         /\ i = Len(calls)
         /\ calls[i].http.kind = "resp" /\ calls[i].http.status = 200
         /\ calls[i].http.body.success = TRUE

C18_Witness ==
  /\ pc = "c_return" /\ outcome = "error" /\ Running
  /\ Len(calls) = 5 /\ calls[5].op = "update_dns_record"
  /\ EnvelopeFailure(calls[5].http)

\* ------------------------------------------------------------------- C19
\* Every call the cycle has made returned, the external-IP fetch with the
\* machine's address and the published-IP lookup, when it is the call just
\* made, with the content of the provider's record.
CallsSucceed ==
  \A i \in DOMAIN calls :
    /\ calls[i].res.ok
    /\ calls[i].op = "get_external_ip" => calls[i].res.val = ext_ip
    /\ (calls[i].op = "get_cloudflare_dns_ip" /\ i = Len(calls)) =>
         calls[i].res.val = cf.content

\* C19: if the process is never ended (no signal, the configuration loads) and
\* from some point on the external IP stays the same and every call succeeds
\* as above, then from some point on the provider's record holds the external
\* IP and no cycle issues an update.
C19_Convergence ==
  ([]Running /\ <>[][ext_ip' = ext_ip]_vars /\ <>[]CallsSucceed) =>
    <>[](cf.content = ext_ip /\ CallsOf("update_dns_record") = {})

C19_Witness ==
  /\ pc = "c_return" /\ outcome = "noop" /\ Running
  /\ prev.outcome = "updated" /\ prev.written = ext_ip
  /\ cf.content = ext_ip
  /\ CallsSucceed

====
